---- MODULE Spec2Model ----
(***************************************************************************)
(* Atari preprocessing wrappers of gymu (src/gymu/wrappers/atari).         *)
(*                                                                         *)
(* Each wrapper owns one inner environment.  A wrapper's handler (step or  *)
(* reset) is one action: it issues its inner calls, the inner environment  *)
(* answers each of them with one of its possible outcomes, and the handler *)
(* returns.  `calls` is the sequence of inner calls the last handler       *)
(* issued, with the answers it got, and `ret` is what the handler          *)
(* returned; `op` names that handler.                                      *)
(***************************************************************************)
EXTENDS Integers, Sequences, FiniteSets, TLC

VARIABLES
    op,                 \* the handler that returned last ("init" after construction)
    arg,                \* the action it was called with: <<a>>, or <<>> when it takes none
    calls,              \* inner calls issued by that handler, in order, with their answers
    ret,                \* what that handler returned
    engLives,           \* the engine's lives counter (env.unwrapped.ale.lives())
    engTerminal,        \* the engine has reported done since its last reset
    lives,              \* EpisodicLifeEnv.lives
    was_real_done,      \* EpisodicLifeEnv.was_real_done
    hist_step_done,     \* history: done flag of the last inner step issued by EpisodicLifeEnv.step
    noop_max,           \* NoopResetEnv.noop_max
    override_num_noops, \* NoopResetEnv.override_num_noops: <<>> is None, <<n>> is n
    obs_buffer,         \* MaxAndSkipEnv._obs_buffer: <<slot 0, slot 1>>
    skip,               \* MaxAndSkipEnv._skip
    pipeline,           \* the wrappers wrap_atari has applied, innermost first
    engCalls            \* engine calls issued by the last handler of the pipeline

vars == <<op, arg, calls, ret, engLives, engTerminal, lives, was_real_done, hist_step_done,
          noop_max, override_num_noops, obs_buffer, skip, pipeline, engCalls>>

elVars   == <<lives, was_real_done, hist_step_done>>
noopVars == <<noop_max, override_num_noops>>
msVars   == <<obs_buffer, skip>>
asmVars  == <<pipeline, engCalls>>

NoEngCalls == [steps |-> 0, resets |-> 0, frames |-> <<>>]

(***************************************************************************)
(* Bounds of the model.                                                    *)
(***************************************************************************)
MaxLives    == 3    \* the engine's lives counter ranges over 0..MaxLives
MaxNoopMax  == 2    \* noop_max ranges over 1..MaxNoopMax
MaxOverride == 2    \* override_num_noops, when set, ranges over -1..MaxOverride
MaxSkip     == 3    \* skip ranges over 1..MaxSkip
MaxReward   == 6    \* rewards given to ClipRewardEnv range over -MaxReward..MaxReward
MaxMeanings == 3    \* a base environment has 0..MaxMeanings actions
WrapNoopMax == 2    \* noop_max of the assembled pipeline (wrap_atari passes 30)
WrapSkip    == 2    \* skip of the assembled pipeline (wrap_atari passes 4)

(***************************************************************************)
(* The inner environment (the engine): an external collaborator.  A raw    *)
(* frame is a tuple of pixels; rewards are numbers; the actions a caller   *)
(* passes to step are drawn from NOOP (0) and FIRE (1).                    *)
(***************************************************************************)
Frames    == {<<0, 1>>, <<1, 0>>}
ZeroFrame == <<0, 0>>
Rewards   == {-1, 2}
Actions   == {0, 1}

\* The info mapping of an inner step is a fresh object: it is identified by the
\* index n of the inner call that produced it.
Info(n) == [call |-> n]

\* An outcome of one engine step: frame, reward, done flag and the lives counter
\* after the step.
StepOutcomes(frames, rewards, livesSet) ==
    [obs : frames, reward : rewards, done : BOOLEAN, lives : livesSet]

\* An outcome of one engine reset: first frame and the lives counter after it.
ResetOutcomes(frames, livesSet) == [obs : frames, lives : livesSet]

\* The record of the n-th inner call of a handler: env.step(action) answered by r.
StepCall(n, action, r) ==
    [kind |-> "step", action |-> action, obs |-> r.obs, reward |-> r.reward,
     done |-> r.done, info |-> Info(n)]

\* The record of an inner call env.reset() answered by o.
ResetCall(o) == [kind |-> "reset", obs |-> o.obs]

\* The engine's terminal flag after a sequence of inner calls.
RECURSIVE TerminalAfter(_, _)
TerminalAfter(term, cs) ==
    IF cs = <<>> THEN term
    ELSE TerminalAfter(IF Head(cs).kind = "reset" THEN FALSE
                       ELSE (term \/ Head(cs).done), Tail(cs))

(***************************************************************************)
(* EpisodicLifeEnv                                                         *)
(***************************************************************************)
ELInitLives == 0
ELInitWasRealDone == TRUE

\* line 101: the life-loss test, on the lives read after the inner step.
ELForcedDone_NoPositiveGuard(new_lives, self_lives) == new_lives < self_lives
ELForcedDone(new_lives, self_lives) == 0 < new_lives /\ new_lives < self_lives

\* line 97: was_real_done records the inner step's done flag, before the override.
ELRecordedDone_AfterOverride(inner_done, forced) == inner_done \/ forced
ELRecordedDone(inner_done, forced) == inner_done

\* lines 106, 123: lives is refreshed from the engine's counter.
ELRefreshLives_Stale(eng_lives, self_lives) ==
    IF eng_lives < self_lives THEN eng_lives ELSE self_lives
ELRefreshLives(eng_lives, self_lives) == eng_lives

\* EpisodicLifeEnv.step(action), the inner step answered by r.
ELStep(self_lives, action, r) ==
    LET inner  == StepCall(1, action, r)
        forced == ELForcedDone(r.lives, self_lives)
    IN  [calls         |-> <<inner>>,
         was_real_done |-> ELRecordedDone(inner.done, forced),
         lives         |-> ELRefreshLives(r.lives, self_lives),
         ret           |-> [kind |-> "step", obs |-> inner.obs, reward |-> inner.reward,
                            done |-> (IF forced THEN TRUE ELSE inner.done),
                            info |-> inner.info]]

\* EpisodicLifeEnv.reset() when was_real_done: the inner reset answered by o.
ELResetReal(self_lives, o) ==
    [calls |-> <<ResetCall(o)>>,
     lives |-> ELRefreshLives(o.lives, self_lives),
     ret   |-> [kind |-> "reset", obs |-> o.obs]]

\* EpisodicLifeEnv.reset() otherwise: the no-op step answered by r.
ELResetNoop(self_lives, r) ==
    LET inner == StepCall(1, 0, r)
    IN  [calls |-> <<inner>>,
         lives |-> ELRefreshLives(r.lives, self_lives),
         ret   |-> [kind |-> "reset", obs |-> inner.obs]]

ELStepOutcomes  == StepOutcomes(Frames, Rewards, 0..MaxLives)
ELResetOutcomes == ResetOutcomes(Frames, 0..MaxLives)

ELInit ==
    /\ op = "init"
    /\ arg = <<>>
    /\ calls = <<>>
    /\ ret = [kind |-> "none"]
    /\ engLives \in 0..MaxLives
    /\ engTerminal = FALSE
    /\ lives = ELInitLives
    /\ was_real_done = ELInitWasRealDone
    /\ hist_step_done = "none"
    /\ noop_max = 0
    /\ override_num_noops = <<>>
    /\ obs_buffer = <<ZeroFrame, ZeroFrame>>
    /\ skip = 0
    /\ pipeline = <<>>
    /\ engCalls = NoEngCalls

ELStepAction ==
    \E action \in Actions, r \in ELStepOutcomes :
        LET res == ELStep(lives, action, r)
        IN  /\ op' = "EL.step"
            /\ arg' = <<action>>
            /\ calls' = res.calls
            /\ ret' = res.ret
            /\ lives' = res.lives
            /\ was_real_done' = res.was_real_done
            /\ hist_step_done' = IF r.done THEN "done" ELSE "live"
            /\ engLives' = r.lives
            /\ engTerminal' = TerminalAfter(engTerminal, res.calls)
            /\ UNCHANGED <<noopVars, msVars, asmVars>>

ELResetAction ==
    /\ IF was_real_done
       THEN \E o \in ELResetOutcomes :
                LET res == ELResetReal(lives, o)
                IN  /\ calls' = res.calls
                    /\ ret' = res.ret
                    /\ lives' = res.lives
                    /\ engLives' = o.lives
       ELSE \E r \in ELStepOutcomes :
                LET res == ELResetNoop(lives, r)
                IN  /\ calls' = res.calls
                    /\ ret' = res.ret
                    /\ lives' = res.lives
                    /\ engLives' = r.lives
    /\ op' = "EL.reset"
    /\ arg' = <<>>
    /\ engTerminal' = TerminalAfter(engTerminal, calls')
    /\ UNCHANGED <<was_real_done, hist_step_done, noopVars, msVars, asmVars>>

ELNext == ELStepAction \/ ELResetAction

SpecEL == ELInit /\ [][ELNext]_vars

\* The caller of step and reset: reset comes before the first step and after
\* every step that returned done, and no step comes in between.
CallerMustReset == op = "init" \/ (op = "EL.step" /\ ret.done)

ELProtocolStep  == ~CallerMustReset /\ ELStepAction
ELProtocolReset == CallerMustReset /\ ELResetAction

ELProtocolNext == ELProtocolStep \/ ELProtocolReset

SpecELProtocol == ELInit /\ [][ELProtocolNext]_vars

(***************************************************************************)
(* NoopResetEnv                                                            *)
(*                                                                         *)
(* A handler whose inner calls depend on the answers it gets is the set of *)
(* its possible executions: one per choice of the engine's answers (and of *)
(* the random draw).                                                       *)
(***************************************************************************)
NoopAction == 0
NoneObs == <<>>     \* obs = None (line 47)

\* reset discards the reward of a no-op step (line 49) and never reads the lives.
NoopStepOutcomes  == StepOutcomes(Frames, {0}, {0})
NoopResetOutcomes == ResetOutcomes(Frames, {0})

\* lines 42-45: the override when it is set, else np_random.randint(1, noop_max + 1),
\* whose upper end is exclusive.
NoopCounts_InclusiveHigh(max, override) ==
    IF override # <<>> THEN {override[1]} ELSE 1..(max + 1)
NoopCounts(max, override) ==
    IF override # <<>> THEN {override[1]} ELSE 1..max

\* line 51: after a done no-op step, obs is the inner reset's observation.
NoopObsAfterDone_KeepsStepObs(step_obs, reset_obs) == step_obs
NoopObsAfterDone(step_obs, reset_obs) == reset_obs

\* lines 48-51: the loop from iteration i on; obs and cs are the observation held
\* and the inner calls issued so far.
RECURSIVE NoopLoop(_, _, _, _)
NoopLoop(i, noops, obs, cs) ==
    IF i >= noops
    THEN {[status |-> "ok", obs |-> obs, calls |-> cs]}
    ELSE UNION {
            LET c == StepCall(Len(cs) + 1, NoopAction, r)
            IN  IF c.done
                THEN UNION { NoopLoop(i + 1, noops, NoopObsAfterDone(c.obs, o.obs),
                                      cs \o <<c, ResetCall(o)>>)
                             : o \in NoopResetOutcomes }
                ELSE NoopLoop(i + 1, noops, c.obs, Append(cs, c))
            : r \in NoopStepOutcomes }

\* line 46: assert noops > 0.
NoopAssertHolds_Unchecked(noops) == TRUE
NoopAssertHolds(noops) == noops > 0

\* NoopResetEnv.reset(): the inner reset, the count, the assertion and the loop.
NoopReset(max, override) ==
    UNION { UNION {
                IF NoopAssertHolds(noops)
                THEN NoopLoop(0, noops, NoneObs, <<ResetCall(o)>>)
                ELSE {[status |-> "AssertionError", obs |-> NoneObs,
                       calls |-> <<ResetCall(o)>>]}
                : noops \in NoopCounts(max, override) }
            : o \in NoopResetOutcomes }

\* Values a caller assigns to the attribute override_num_noops.
NoopOverrides == {<<>>} \cup {<<n>> : n \in -1..MaxOverride}

PassStepOutcomes == StepOutcomes(Frames, Rewards, {0})

NoopInit ==
    /\ op = "init"
    /\ arg = <<>>
    /\ calls = <<>>
    /\ ret = [kind |-> "none"]
    /\ engLives = 0
    /\ engTerminal = FALSE
    /\ lives = ELInitLives
    /\ was_real_done = ELInitWasRealDone
    /\ hist_step_done = "none"
    /\ noop_max \in 1..MaxNoopMax
    /\ override_num_noops = <<>>
    /\ obs_buffer = <<ZeroFrame, ZeroFrame>>
    /\ skip = 0
    /\ pipeline = <<>>
    /\ engCalls = NoEngCalls

NoopResetAction ==
    \E e \in NoopReset(noop_max, override_num_noops) :
        /\ op' = "Noop.reset"
        /\ arg' = <<>>
        /\ calls' = e.calls
        /\ ret' = IF e.status = "ok" THEN [kind |-> "reset", obs |-> e.obs]
                  ELSE [kind |-> e.status]
        /\ engTerminal' = TerminalAfter(engTerminal, e.calls)
        /\ UNCHANGED <<engLives, elVars, noopVars, msVars, asmVars>>

\* NoopResetEnv.step(action): a pass-through.
NoopStepAction ==
    \E action \in Actions, r \in PassStepOutcomes :
        LET inner == StepCall(1, action, r)
        IN  /\ op' = "Noop.step"
            /\ arg' = <<action>>
            /\ calls' = <<inner>>
            /\ ret' = [kind |-> "step", obs |-> inner.obs, reward |-> inner.reward,
                       done |-> inner.done, info |-> inner.info]
            /\ engTerminal' = TerminalAfter(engTerminal, <<inner>>)
            /\ UNCHANGED <<engLives, elVars, noopVars, msVars, asmVars>>

\* The caller assigns override_num_noops; no handler runs.
NoopSetOverride ==
    \E v \in NoopOverrides :
        /\ override_num_noops' = v
        /\ op' = "Noop.set_override"
        /\ arg' = <<>>
        /\ calls' = <<>>
        /\ ret' = [kind |-> "none"]
        /\ UNCHANGED <<engLives, engTerminal, elVars, noop_max, msVars, asmVars>>

NoopNext == NoopResetAction \/ NoopStepAction \/ NoopSetOverride

SpecNoop == NoopInit /\ [][NoopNext]_vars

(***************************************************************************)
(* FireResetEnv                                                            *)
(***************************************************************************)
FireFirstAction  == 1
FireSecondAction == 2

\* reset discards the rewards (lines 71, 74) and never reads the lives.
FireStepOutcomes  == StepOutcomes(Frames, Rewards, {0})
FireResetOutcomes == ResetOutcomes(Frames, {0})

\* lines 72-73 and 75-76: the calls issued once inner step c has answered, after
\* the calls cs: an inner reset follows when c reported done.
FireAfterStep_NoReset(cs, c) == {Append(cs, c)}
FireAfterStep(cs, c) ==
    IF c.done
    THEN {cs \o <<c, ResetCall(o)>> : o \in FireResetOutcomes}
    ELSE {Append(cs, c)}

\* lines 74-77: obs is assigned by the step with action 2 only; the result of
\* the inner reset that may follow it is dropped.
FireReturnedObs_OfLastCall(step_obs, cs) == cs[Len(cs)].obs
FireReturnedObs(step_obs, cs) == step_obs

\* FireResetEnv.reset().
FireReset ==
    UNION { UNION { UNION {
        LET c1 == StepCall(2, FireFirstAction, r1)
        IN  UNION {
                LET c2 == StepCall(Len(cs1) + 1, FireSecondAction, r2)
                IN  { [obs |-> FireReturnedObs(c2.obs, cs2), calls |-> cs2]
                      : cs2 \in FireAfterStep(cs1, c2) }
                : cs1 \in FireAfterStep(<<ResetCall(o)>>, c1) }
        : r2 \in FireStepOutcomes }
        : r1 \in FireStepOutcomes }
        : o \in FireResetOutcomes }

FireInit ==
    /\ op = "init"
    /\ arg = <<>>
    /\ calls = <<>>
    /\ ret = [kind |-> "none"]
    /\ engLives = 0
    /\ engTerminal = FALSE
    /\ lives = ELInitLives
    /\ was_real_done = ELInitWasRealDone
    /\ hist_step_done = "none"
    /\ noop_max = 0
    /\ override_num_noops = <<>>
    /\ obs_buffer = <<ZeroFrame, ZeroFrame>>
    /\ skip = 0
    /\ pipeline = <<>>
    /\ engCalls = NoEngCalls

FireResetAction ==
    \E e \in FireReset :
        /\ op' = "Fire.reset"
        /\ arg' = <<>>
        /\ calls' = e.calls
        /\ ret' = [kind |-> "reset", obs |-> e.obs]
        /\ engTerminal' = TerminalAfter(engTerminal, e.calls)
        /\ UNCHANGED <<engLives, elVars, noopVars, msVars, asmVars>>

\* FireResetEnv.step(action): a pass-through.
FireStepAction ==
    \E action \in Actions, r \in PassStepOutcomes :
        LET inner == StepCall(1, action, r)
        IN  /\ op' = "Fire.step"
            /\ arg' = <<action>>
            /\ calls' = <<inner>>
            /\ ret' = [kind |-> "step", obs |-> inner.obs, reward |-> inner.reward,
                       done |-> inner.done, info |-> inner.info]
            /\ engTerminal' = TerminalAfter(engTerminal, <<inner>>)
            /\ UNCHANGED <<engLives, elVars, noopVars, msVars, asmVars>>

FireNext == FireResetAction \/ FireStepAction

SpecFire == FireInit /\ [][FireNext]_vars

(***************************************************************************)
(* MaxAndSkipEnv                                                           *)
(***************************************************************************)
\* line 163: _obs_buffer.max(axis=0), the element-wise maximum of the two slots.
FrameMax_LastOnly(a, b) == b
FrameMax(a, b) == [p \in 1..Len(a) |-> IF a[p] >= b[p] THEN a[p] ELSE b[p]]

\* lines 154-157: iteration i of the loop stores the frame in slot 0 when
\* i = skip - 2 and in slot 1 when i = skip - 1.
MSStore_Rolling(buf, i, sk, obs) == <<buf[2], obs>>
MSStore(buf, i, sk, obs) ==
    LET b0 == IF i = sk - 2 THEN [buf EXCEPT ![1] = obs] ELSE buf
    IN  IF i = sk - 1 THEN [b0 EXCEPT ![2] = obs] ELSE b0

\* line 158: total_reward += reward.
MSAccumulate_ClippedFirst(total, reward) ==
    total + (IF reward > 0 THEN 1 ELSE IF reward < 0 THEN -1 ELSE 0)
MSAccumulate(total, reward) == total + reward

\* lines 159-160: the loop breaks when the sub-step reported done.
MSBreaks_Never(done) == FALSE
MSBreaks(done) == done

\* step never reads the lives.
MSStepOutcomes  == StepOutcomes(Frames, Rewards, {0})
MSResetOutcomes == ResetOutcomes(Frames, {0})

\* lines 152-160: the loop from iteration i on; buf, total and cs are the buffer,
\* the reward summed and the inner calls issued so far.
RECURSIVE MSLoop(_, _, _, _, _, _)
MSLoop(i, sk, action, buf, total, cs) ==
    UNION {
        LET c   == StepCall(Len(cs) + 1, action, r)
            b   == MSStore(buf, i, sk, c.obs)
            t   == MSAccumulate(total, c.reward)
            cs2 == Append(cs, c)
        IN  IF MSBreaks(c.done) \/ i + 1 >= sk
            THEN {[obs_buffer |-> b, total |-> t, done |-> c.done, info |-> c.info,
                   calls |-> cs2]}
            ELSE MSLoop(i + 1, sk, action, b, t, cs2)
        : r \in MSStepOutcomes }

\* MaxAndSkipEnv.step(action).
MSStep(sk, action, buf) ==
    { [obs_buffer |-> e.obs_buffer,
       calls      |-> e.calls,
       ret        |-> [kind |-> "step",
                       obs |-> FrameMax(e.obs_buffer[1], e.obs_buffer[2]),
                       reward |-> e.total, done |-> e.done, info |-> e.info]]
      : e \in MSLoop(0, sk, action, buf, 0, <<>>) }

MSInit ==
    /\ op = "init"
    /\ arg = <<>>
    /\ calls = <<>>
    /\ ret = [kind |-> "none"]
    /\ engLives = 0
    /\ engTerminal = FALSE
    /\ lives = ELInitLives
    /\ was_real_done = ELInitWasRealDone
    /\ hist_step_done = "none"
    /\ noop_max = 0
    /\ override_num_noops = <<>>
    /\ obs_buffer = <<ZeroFrame, ZeroFrame>>
    /\ skip \in 1..MaxSkip
    /\ pipeline = <<>>
    /\ engCalls = NoEngCalls

MSStepAction ==
    \E action \in Actions :
        \E e \in MSStep(skip, action, obs_buffer) :
            /\ op' = "MS.step"
            /\ arg' = <<action>>
            /\ calls' = e.calls
            /\ ret' = e.ret
            /\ obs_buffer' = e.obs_buffer
            /\ engTerminal' = TerminalAfter(engTerminal, e.calls)
            /\ UNCHANGED <<engLives, elVars, noopVars, skip, asmVars>>

\* MaxAndSkipEnv.reset(): a pass-through; the buffer is left as it is.
MSResetAction ==
    \E o \in MSResetOutcomes :
        /\ op' = "MS.reset"
        /\ arg' = <<>>
        /\ calls' = <<ResetCall(o)>>
        /\ ret' = [kind |-> "reset", obs |-> o.obs]
        /\ engTerminal' = FALSE
        /\ UNCHANGED <<engLives, elVars, noopVars, msVars, asmVars>>

MSNext == MSStepAction \/ MSResetAction

SpecMS == MSInit /\ [][MSNext]_vars

(***************************************************************************)
(* ClipRewardEnv                                                           *)
(***************************************************************************)
\* line 186: np.sign(reward).
Sign_ZeroIsPositive(r) == IF r >= 0 THEN 1 ELSE -1
Sign(r) == IF r > 0 THEN 1 ELSE IF r < 0 THEN -1 ELSE 0

\* ClipRewardEnv.reward(reward).
ClipReward(r) == Sign(r)

ClipStepOutcomes  == StepOutcomes(Frames, (-MaxReward)..MaxReward, {0})
ClipResetOutcomes == ResetOutcomes(Frames, {0})

ClipInit ==
    /\ op = "init"
    /\ arg = <<>>
    /\ calls = <<>>
    /\ ret = [kind |-> "none"]
    /\ engLives = 0
    /\ engTerminal = FALSE
    /\ lives = ELInitLives
    /\ was_real_done = ELInitWasRealDone
    /\ hist_step_done = "none"
    /\ noop_max = 0
    /\ override_num_noops = <<>>
    /\ obs_buffer = <<ZeroFrame, ZeroFrame>>
    /\ skip = 0
    /\ pipeline = <<>>
    /\ engCalls = NoEngCalls

\* ClipRewardEnv.step(action): the reward wrapper's step passes the inner step's
\* result through, with reward() applied to its reward.
ClipStepAction ==
    \E action \in Actions, r \in ClipStepOutcomes :
        LET inner == StepCall(1, action, r)
        IN  /\ op' = "Clip.step"
            /\ arg' = <<action>>
            /\ calls' = <<inner>>
            /\ ret' = [kind |-> "step", obs |-> inner.obs,
                       reward |-> ClipReward(inner.reward),
                       done |-> inner.done, info |-> inner.info]
            /\ engTerminal' = TerminalAfter(engTerminal, <<inner>>)
            /\ UNCHANGED <<engLives, elVars, noopVars, msVars, asmVars>>

\* ClipRewardEnv.reset(): a pass-through.
ClipResetAction ==
    \E o \in ClipResetOutcomes :
        /\ op' = "Clip.reset"
        /\ arg' = <<>>
        /\ calls' = <<ResetCall(o)>>
        /\ ret' = [kind |-> "reset", obs |-> o.obs]
        /\ engTerminal' = FALSE
        /\ UNCHANGED <<engLives, elVars, noopVars, msVars, asmVars>>

ClipNext == ClipStepAction \/ ClipResetAction

SpecClip == ClipInit /\ [][ClipNext]_vars

(***************************************************************************)
(* Construction: NoopResetEnv.__init__, FireResetEnv.__init__, wrap_atari  *)
(*                                                                         *)
(* A base environment is its list of action meanings and its spec id; the  *)
(* id is a sequence of tokens, and `x in id` holds when x is one of them.  *)
(***************************************************************************)
ActionNames  == {"NOOP", "FIRE", "UP"}
MeaningLists == UNION {[1..n -> ActionNames] : n \in 0..MaxMeanings}
SpecIds      == {<<"Pong", "NoFrameskip", "-v4">>, <<"Pong", "-v4">>}
BaseEnvs     == [meanings : MeaningLists, id : SpecIds]
FrameStacks  == {1, 4}

\* x in seq
Contains(seq, x) == \E i \in 1..Len(seq) : seq[i] = x

\* line 38: assert get_action_meanings()[0] == 'NOOP' (index 0 is the first name).
NoopInitCheck(meanings) ==
    IF Len(meanings) < 1 THEN "IndexError"
    ELSE IF meanings[1] = "NOOP" THEN "ok" ELSE "AssertionError"

\* lines 66-67: assert get_action_meanings()[1] == 'FIRE', then assert len >= 3.
FireInitCheck_NoLength(meanings) ==
    IF Len(meanings) < 2 THEN "IndexError"
    ELSE IF meanings[2] = "FIRE" THEN "ok" ELSE "AssertionError"
FireInitCheck(meanings) ==
    IF Len(meanings) < 2 THEN "IndexError"
    ELSE IF meanings[2] # "FIRE" THEN "AssertionError"
    ELSE IF Len(meanings) >= 3 THEN "ok" ELSE "AssertionError"

\* line 208: 'FIRE' in env.unwrapped.get_action_meanings().
WrapWantsFire_AtIndexOne(meanings) == Len(meanings) >= 2 /\ meanings[2] = "FIRE"
WrapWantsFire(meanings) == Contains(meanings, "FIRE")

\* line 199: assert 'NoFrameskip' in env.spec.id.
WrapIdCheck(id) == IF Contains(id, "NoFrameskip") THEN "ok" ELSE "AssertionError"

\* lines 211-218: the stages applied after FireResetEnv.
WrapTail(p, clip_rewards, frame_stack) ==
    LET p1 == Append(p, "image")
        p2 == IF clip_rewards THEN Append(p1, "ClipRewardEnv") ELSE p1
    IN  IF frame_stack > 1 THEN Append(p2, "Stack") ELSE p2

\* wrap_atari(env, episode_life, clip_rewards, frame_stack): the status it ends
\* with and the wrappers constructed, innermost first.
WrapAtari(env, episode_life, clip_rewards, frame_stack) ==
    IF WrapIdCheck(env.id) # "ok"
    THEN [status |-> WrapIdCheck(env.id), pipeline |-> <<>>]
    ELSE IF NoopInitCheck(env.meanings) # "ok"
    THEN [status |-> NoopInitCheck(env.meanings), pipeline |-> <<>>]
    ELSE
        LET p2 == <<"NoopResetEnv", "MaxAndSkipEnv">>
            p3 == IF episode_life THEN Append(p2, "EpisodicLifeEnv") ELSE p2
        IN  IF WrapWantsFire(env.meanings)
            THEN IF FireInitCheck(env.meanings) # "ok"
                 THEN [status |-> FireInitCheck(env.meanings), pipeline |-> p3]
                 ELSE [status   |-> "ok",
                       pipeline |-> WrapTail(Append(p3, "FireResetEnv"),
                                             clip_rewards, frame_stack)]
            ELSE [status |-> "ok", pipeline |-> WrapTail(p3, clip_rewards, frame_stack)]

BuildInit ==
    /\ op = "init"
    /\ arg = <<>>
    /\ calls = <<>>
    /\ ret = [kind |-> "none"]
    /\ engLives = 0
    /\ engTerminal = FALSE
    /\ lives = ELInitLives
    /\ was_real_done = ELInitWasRealDone
    /\ hist_step_done = "none"
    /\ noop_max = 0
    /\ override_num_noops = <<>>
    /\ obs_buffer = <<ZeroFrame, ZeroFrame>>
    /\ skip = 0
    /\ pipeline = <<>>
    /\ engCalls = NoEngCalls

\* NoopResetEnv(env): construction issues no inner step or reset.
BuildNoopAction ==
    \E env \in BaseEnvs :
        /\ op' = "Noop.__init__"
        /\ arg' = [env |-> env]
        /\ calls' = <<>>
        /\ ret' = [kind |-> NoopInitCheck(env.meanings)]
        /\ pipeline' = IF NoopInitCheck(env.meanings) = "ok"
                       THEN <<"NoopResetEnv">> ELSE <<>>
        /\ UNCHANGED <<engLives, engTerminal, elVars, noopVars, msVars, engCalls>>

\* FireResetEnv(env).
BuildFireAction ==
    \E env \in BaseEnvs :
        /\ op' = "Fire.__init__"
        /\ arg' = [env |-> env]
        /\ calls' = <<>>
        /\ ret' = [kind |-> FireInitCheck(env.meanings)]
        /\ pipeline' = IF FireInitCheck(env.meanings) = "ok"
                       THEN <<"FireResetEnv">> ELSE <<>>
        /\ UNCHANGED <<engLives, engTerminal, elVars, noopVars, msVars, engCalls>>

\* wrap_atari(env, episode_life, clip_rewards, frame_stack).
WrapAtariAction ==
    \E env \in BaseEnvs, episode_life \in BOOLEAN, clip_rewards \in BOOLEAN,
       frame_stack \in FrameStacks :
        LET w == WrapAtari(env, episode_life, clip_rewards, frame_stack)
        IN  /\ op' = "wrap_atari"
            /\ arg' = [env |-> env, episode_life |-> episode_life,
                       clip_rewards |-> clip_rewards, frame_stack |-> frame_stack]
            /\ calls' = <<>>
            /\ ret' = [kind |-> w.status]
            /\ pipeline' = w.pipeline
            /\ UNCHANGED <<engLives, engTerminal, elVars, noopVars, msVars, engCalls>>

BuildNext == BuildNoopAction \/ BuildFireAction \/ WrapAtariAction

SpecBuild == BuildInit /\ [][BuildNext]_vars

(***************************************************************************)
(* The assembled pipeline: step and reset on the outermost wrapper of what *)
(* wrap_atari returns, down to the engine.  Observations are left out (the *)
(* image transform and Stack only change them), and so are action values:  *)
(* what is kept of a raw engine frame is its reward, its done flag and the *)
(* lives counter after it.  engCalls counts the engine calls of the last   *)
(* outer call and holds the raw frames of an outer step's skip window.     *)
(***************************************************************************)
ChainLives         == {0, 1, 2}
ChainRewards       == {-1, 0, 2}
ChainStepOutcomes  == [reward : ChainRewards, done : BOOLEAN, lives : ChainLives]
ChainResetOutcomes == [lives : ChainLives]
ChainEnvs ==
    { [meanings |-> m, id |-> <<"Pong", "NoFrameskip", "-v4">>]
      : m \in {<<"NOOP", "FIRE", "UP">>, <<"NOOP", "UP", "UP">>} }

\* The engine as a handler sees it: calls issued so far, lives counter, terminal flag.
EngStart(eng_lives, term) ==
    [steps |-> 0, resets |-> 0, lives |-> eng_lives, term |-> term]
EngStep(e, f) ==
    [steps |-> e.steps + 1, resets |-> e.resets, lives |-> f.lives,
     term |-> (e.term \/ f.done)]
EngReset(e, o) ==
    [steps |-> e.steps, resets |-> e.resets + 1, lives |-> o.lives, term |-> FALSE]

\* The set S itself, with each element held once.
Distinct(S) == {x \in S : TRUE}

\* NoopResetEnv.reset, lines 49-51: one iteration of the loop.
ChainNoopIter(e) ==
    UNION { IF f.done
            THEN {EngReset(EngStep(e, f), o) : o \in ChainResetOutcomes}
            ELSE {EngStep(e, f)}
            : f \in ChainStepOutcomes }

\* lines 48-51: the iterations from i on, from each engine state of S.
RECURSIVE ChainNoopLoop(_, _, _)
ChainNoopLoop(i, noops, S) ==
    IF i >= noops THEN S
    ELSE ChainNoopLoop(i + 1, noops, Distinct(UNION {ChainNoopIter(e) : e \in S}))

\* NoopResetEnv.reset(); override_num_noops is never set in the pipeline.
ChainNoopReset(max, e) ==
    Distinct(UNION {
        IF NoopAssertHolds(noops)
        THEN ChainNoopLoop(0, noops, {EngReset(e, o) : o \in ChainResetOutcomes})
        ELSE {}
        : noops \in NoopCounts(max, <<>>) })

\* MaxAndSkipEnv.step, lines 152-160: one iteration of the loop.  keep is FALSE
\* when the caller of step drops the reward (the steps issued inside resets).
ChainMSIter(r, keep) ==
    IF r.brk THEN {r}
    ELSE { [e      |-> EngStep(r.e, f),
            done   |-> f.done,
            brk    |-> MSBreaks(f.done),
            total  |-> IF keep THEN MSAccumulate(r.total, f.reward) ELSE 0,
            frames |-> IF keep THEN Append(r.frames, f) ELSE <<>>]
           : f \in ChainStepOutcomes }

RECURSIVE ChainMSLoop(_, _, _, _)
ChainMSLoop(i, sk, keep, S) ==
    IF i >= sk THEN S
    ELSE ChainMSLoop(i + 1, sk, keep, Distinct(UNION {ChainMSIter(r, keep) : r \in S}))

\* MaxAndSkipEnv.step(action) over NoopResetEnv.step (a pass-through).
ChainMSStep(sk, keep, e) ==
    ChainMSLoop(0, sk, keep,
                {[e |-> e, done |-> FALSE, brk |-> FALSE, total |-> 0, frames |-> <<>>]})

\* The engine states a handler can start from, its own calls not yet counted.
ChainEngines == [steps : {0}, resets : {0}, lives : ChainLives, term : BOOLEAN]

\* NoopResetEnv.reset() and a MaxAndSkipEnv.step whose reward is dropped, with
\* noop_max = WrapNoopMax and skip = WrapSkip, from each engine state: evaluated
\* once.
ChainNoopResetTable ==
    [e \in ChainEngines |-> ChainNoopReset(WrapNoopMax, e)] @@ <<>>
ChainQuietStepTable ==
    [e \in ChainEngines |-> ChainMSStep(WrapSkip, FALSE, e)] @@ <<>>

\* The engine after the calls counted in d were issued from e.
EngAfter(e, d) ==
    [steps |-> e.steps + d.steps, resets |-> e.resets + d.resets, lives |-> d.lives,
     term |-> d.term]

\* MaxAndSkipEnv.reset() (a pass-through to NoopResetEnv.reset) and a
\* MaxAndSkipEnv.step whose reward is dropped, issued when the engine is e.
ChainMSReset(e) ==
    {EngAfter(e, d) : d \in ChainNoopResetTable[EngStart(e.lives, e.term)]}
ChainQuietStep(e) ==
    { [r EXCEPT !.e = EngAfter(e, r.e)]
      : r \in ChainQuietStepTable[EngStart(e.lives, e.term)] }

\* EpisodicLifeEnv.step(action) when the pipeline has it, MaxAndSkipEnv.step
\* otherwise; x holds the engine, self.lives and self.was_real_done, and r is
\* the result of the inner step.
ChainELStep(p, x, r) ==
    IF Contains(p, "EpisodicLifeEnv")
    THEN LET forced == ELForcedDone(r.e.lives, x.lives)
         IN  [x      |-> [e     |-> r.e,
                          lives |-> ELRefreshLives(r.e.lives, x.lives),
                          wrd   |-> ELRecordedDone(r.done, forced)],
              done   |-> (IF forced THEN TRUE ELSE r.done),
              total  |-> r.total,
              frames |-> r.frames]
    ELSE [x |-> [x EXCEPT !.e = r.e], done |-> r.done, total |-> r.total,
          frames |-> r.frames]

\* EpisodicLifeEnv.reset() when the pipeline has it, else MaxAndSkipEnv.reset.
ChainELReset(p, x) ==
    IF ~Contains(p, "EpisodicLifeEnv")
    THEN {[x EXCEPT !.e = e2] : e2 \in ChainMSReset(x.e)}
    ELSE IF x.wrd
    THEN { [e |-> e2, lives |-> ELRefreshLives(e2.lives, x.lives), wrd |-> x.wrd]
           : e2 \in ChainMSReset(x.e) }
    ELSE { [e |-> r.e, lives |-> ELRefreshLives(r.e.lives, x.lives), wrd |-> x.wrd]
           : r \in ChainQuietStep(x.e) }

\* FireResetEnv.reset, lines 71-73 and 74-76: a step, then a reset if it was done.
ChainFireStep(p, S) ==
    Distinct(UNION { UNION { LET s == ChainELStep(p, x, r)
                             IN  IF s.done THEN ChainELReset(p, s.x) ELSE {s.x}
                             : r \in ChainQuietStep(x.e) }
                     : x \in S })

\* reset() of the pipeline: FireResetEnv.reset when the pipeline has it.
ChainReset(p, x) ==
    LET S0 == ChainELReset(p, x)
    IN  IF Contains(p, "FireResetEnv")
        THEN ChainFireStep(p, ChainFireStep(p, S0))
        ELSE S0

\* step(action) of the pipeline: FireResetEnv.step is a pass-through and
\* ClipRewardEnv transforms the reward.
ChainStep(p, x) ==
    { LET s == ChainELStep(p, x, r)
      IN  [x      |-> s.x,
           done   |-> s.done,
           reward |-> IF Contains(p, "ClipRewardEnv") THEN ClipReward(s.total)
                      ELSE s.total,
           frames |-> s.frames]
      : r \in ChainMSStep(WrapSkip, TRUE, x.e) }

\* The pipelines wrap_atari assembles for ChainEnvs, and the states a pipeline
\* can be called in: self.lives is its initial value or the engine's counter.
ChainPipelines ==
    { WrapAtari(env, episode_life, TRUE, 4).pipeline
      : env \in ChainEnvs, episode_life \in BOOLEAN }
ChainStates ==
    {x \in [e : ChainEngines, lives : ChainLives, wrd : BOOLEAN] :
        x.lives \in {ELInitLives, x.e.lives}}

\* step and reset of each pipeline from each state: evaluated once.
ChainStepTable ==
    [k \in ChainPipelines \X ChainStates |-> ChainStep(k[1], k[2])] @@ <<>>
ChainResetTable ==
    [k \in ChainPipelines \X ChainStates |-> ChainReset(k[1], k[2])] @@ <<>>

\* The action a caller passes to step; the engine's answer is not tied to it.
ChainActions == {1}

ChainInit ==
    /\ op = "init"
    /\ arg = <<>>
    /\ calls = <<>>
    /\ ret = [kind |-> "none"]
    /\ engLives \in ChainLives
    /\ engTerminal = FALSE
    /\ lives = ELInitLives
    /\ was_real_done = ELInitWasRealDone
    /\ hist_step_done = "none"
    /\ noop_max = WrapNoopMax
    /\ override_num_noops = <<>>
    /\ obs_buffer = <<ZeroFrame, ZeroFrame>>
    /\ skip = WrapSkip
    /\ pipeline \in ChainPipelines
    /\ engCalls = NoEngCalls

\* The caller resets before the first step and after a step that returned done.
ChainMustReset == op = "init" \/ (op = "Chain.step" /\ ret.done)

ChainStepAction ==
    /\ ~ChainMustReset
    /\ \E action \in ChainActions :
        \E r \in ChainStepTable[<<pipeline, [e |-> EngStart(engLives, engTerminal),
                                              lives |-> lives, wrd |-> was_real_done]>>] :
            /\ op' = "Chain.step"
            /\ arg' = <<action>>
            /\ ret' = [kind |-> "step", reward |-> r.reward, done |-> r.done]
            /\ engCalls' = [steps |-> r.x.e.steps, resets |-> r.x.e.resets,
                            frames |-> r.frames]
            /\ engLives' = r.x.e.lives
            /\ engTerminal' = r.x.e.term
            /\ lives' = r.x.lives
            /\ was_real_done' = r.x.wrd
            /\ UNCHANGED <<calls, hist_step_done, noopVars, msVars, pipeline>>

ChainResetAction ==
    \E x \in ChainResetTable[<<pipeline, [e |-> EngStart(engLives, engTerminal),
                                          lives |-> lives, wrd |-> was_real_done]>>] :
        /\ op' = "Chain.reset"
        /\ arg' = <<>>
        /\ ret' = [kind |-> "reset"]
        /\ engCalls' = [steps |-> x.e.steps, resets |-> x.e.resets, frames |-> <<>>]
        /\ engLives' = x.e.lives
        /\ engTerminal' = x.e.term
        /\ lives' = x.lives
        /\ was_real_done' = x.wrd
        /\ UNCHANGED <<calls, hist_step_done, noopVars, msVars, pipeline>>

ChainNext == ChainStepAction \/ ChainResetAction

SpecChain == ChainInit /\ [][ChainNext]_vars

(***************************************************************************)
(* Claims about EpisodicLifeEnv, checked under SpecEL.                     *)
(***************************************************************************)

\* C1: every EpisodicLife.step returns done exactly when the inner step reported
\* done or the lives read after it satisfy 0 < new lives < previously stored
\* lives; observation, reward and info are the inner step's; was_real_done is the
\* inner done flag.  A drop to 0 lives without inner done never forces done, and
\* once the stored lives follow the engine (a step or reset has returned), a step
\* whose inner done is false returns done exactly when the engine's lives
\* strictly decrease to a positive value.
C1_StepDone ==
    [][op' = "EL.step" =>
        LET c == calls'[1]
        IN  /\ Len(calls') = 1
            /\ c.kind = "step"
            /\ ret'.done = (c.done \/ (0 < engLives' /\ engLives' < lives))
            /\ ret'.obs = c.obs
            /\ ret'.reward = c.reward
            /\ ret'.info = c.info
            /\ was_real_done' = c.done
            /\ (engLives' = 0 /\ ~c.done => ~ret'.done)
            /\ (op # "init" /\ ~c.done =>
                    (ret'.done <=> (0 < engLives' /\ engLives' < engLives)))]_vars

\* A step returned done although the inner step did not: a forced life-loss done.
C1_Witness == op = "EL.step" /\ ret.done /\ ~calls[1].done /\ ~was_real_done

\* C2: EpisodicLife.reset performs exactly one inner reset and no inner step when
\* the last inner step issued by EpisodicLife.step reported done or no step was
\* issued yet; otherwise exactly one inner step with action 0 and no inner reset.
C2_ResetChoice ==
    [][op' = "EL.reset" =>
        /\ Len(calls') = 1
        /\ IF hist_step_done \in {"none", "done"}
           THEN calls'[1].kind = "reset"
           ELSE calls'[1].kind = "step" /\ calls'[1].action = 0]_vars

\* A reset after a step whose inner done was false issued the no-op step.
C2_Witness ==
    op = "EL.reset" /\ hist_step_done = "live" /\ calls[1].kind = "step"

\* C3: the stored lives are never negative, and after every return of step or
\* reset they equal the engine's lives counter.
C3_LivesTracked ==
    /\ lives >= 0
    /\ (op \in {"EL.step", "EL.reset"} => lives = engLives)

\* A no-op reset returned with a positive lives count read from the engine.
C3_Witness ==
    op = "EL.reset" /\ calls[1].kind = "step" /\ engLives > 0 /\ lives = engLives

(***************************************************************************)
(* Claims about NoopResetEnv, checked under SpecNoop.                      *)
(***************************************************************************)

\* The number of inner steps with the no-op action among the calls of the last handler.
NoopStepsIssued ==
    Cardinality({i \in 1..Len(calls) :
                    calls[i].kind = "step" /\ calls[i].action = NoopAction})

\* Some inner step of the last handler reported done.
SomeStepDone == \E i \in 1..Len(calls) : calls[i].kind = "step" /\ calls[i].done

\* C4 as stated: every NoOpReset.reset issues between 1 and noop_max no-op steps
\* when override_num_noops is unset, and exactly override_num_noops when it is set.
C4_Original ==
    op = "Noop.reset" =>
        IF override_num_noops = <<>>
        THEN NoopStepsIssued \in 1..noop_max
        ELSE NoopStepsIssued = override_num_noops[1]

\* C4 amended: every NoOpReset.reset issues between 1 and noop_max no-op steps
\* when override_num_noops is unset, exactly override_num_noops when it is set to
\* a positive value, and none when it is set to a value <= 0 (the reset then fails
\* its assertion); the count does not depend on the done flags of those steps.
C4_NoopCount ==
    op = "Noop.reset" =>
        IF override_num_noops = <<>>
        THEN ret.kind = "reset" /\ NoopStepsIssued \in 1..noop_max
        ELSE IF override_num_noops[1] > 0
             THEN ret.kind = "reset" /\ NoopStepsIssued = override_num_noops[1]
             ELSE NoopStepsIssued = 0

\* A reset with the override set issued exactly that many no-op steps although
\* one of them reported done.
C4_Witness ==
    /\ op = "Noop.reset"
    /\ override_num_noops = <<2>>
    /\ NoopStepsIssued = 2
    /\ SomeStepDone

\* C5: in NoOpReset.reset every no-op step that reports done is immediately
\* followed by an inner reset, and the observation returned is that of the last
\* inner call, which is a no-op step that reported not done or the inner reset
\* that followed a done step: the inner environment is not terminal on return.
C5_NoopLive ==
    op = "Noop.reset" =>
        /\ \A i \in 1..Len(calls) :
              (calls[i].kind = "step" /\ calls[i].done) =>
                  (i < Len(calls) /\ calls[i + 1].kind = "reset")
        /\ ret.kind = "reset" =>
              LET n    == Len(calls)
                  last == calls[n]
              IN  /\ ret.obs = last.obs
                  /\ last.kind = "step" => ~last.done
                  /\ last.kind = "reset" =>
                        (n > 1 /\ calls[n - 1].kind = "step" /\ calls[n - 1].done)
                  /\ ~engTerminal

\* The last no-op step reported done and reset returned the observation of the
\* inner reset that followed, which differs from that step's observation.
C5_Witness ==
    /\ op = "Noop.reset"
    /\ ret.kind = "reset"
    /\ Len(calls) >= 3
    /\ calls[Len(calls)].kind = "reset"
    /\ calls[Len(calls) - 1].done
    /\ ret.obs = calls[Len(calls)].obs
    /\ ret.obs # calls[Len(calls) - 1].obs

(***************************************************************************)
(* Claims about FireResetEnv, checked under SpecFire.                      *)
(***************************************************************************)

\* The inner steps among the calls of the last handler, in order.
StepsOf(cs) == SelectSeq(cs, LAMBDA c : c.kind = "step")

\* The index in calls of the inner step with the given action.
StepIndex(action) ==
    CHOOSE i \in 1..Len(calls) : calls[i].kind = "step" /\ calls[i].action = action

\* C6: every FireReset.reset issues one inner reset, then one inner step with
\* action 1, then one inner step with action 2, and no other step; a further
\* inner reset follows each of the two steps exactly when that step reported done.
C6_FireSequence ==
    op = "Fire.reset" =>
        LET steps == StepsOf(calls)
        IN  /\ calls[1].kind = "reset"
            /\ Len(steps) = 2
            /\ steps[1].action = 1
            /\ steps[2].action = 2
            /\ calls[2] = steps[1]
            /\ \A i \in 2..Len(calls) :
                  calls[i].kind = "step" =>
                      (calls[i].done <=> (i < Len(calls) /\ calls[i + 1].kind = "reset"))
            /\ \A i \in 2..Len(calls) :
                  calls[i].kind = "reset" => calls[i - 1].kind = "step"

\* Both steps reported done: reset, step 1, reset, step 2, reset.
C6_Witness ==
    /\ op = "Fire.reset"
    /\ Len(calls) = 5
    /\ calls[2].done
    /\ calls[3].kind = "reset"
    /\ calls[4].done
    /\ calls[5].kind = "reset"

\* C7: FireReset.reset returns the observation of the inner step with action 2,
\* whether or not the step with action 1 reported done, and also when the step
\* with action 2 reported done and the inner environment was reset after it.
C7_FireObs ==
    op = "Fire.reset" => ret.obs = calls[StepIndex(2)].obs

\* The step with action 2 reported done, an inner reset followed with another
\* observation, and reset returned the step's observation.
C7_Witness ==
    /\ op = "Fire.reset"
    /\ calls[Len(calls)].kind = "reset"
    /\ calls[Len(calls) - 1].action = 2
    /\ calls[Len(calls) - 1].done
    /\ calls[Len(calls)].obs # calls[Len(calls) - 1].obs
    /\ ret.obs = calls[Len(calls) - 1].obs

(***************************************************************************)
(* Claims about MaxAndSkipEnv, checked under SpecMS.                       *)
(***************************************************************************)

\* The sum of the rewards of a sequence of inner steps.
RECURSIVE SumRewards(_)
SumRewards(cs) == IF cs = <<>> THEN 0 ELSE Head(cs).reward + SumRewards(Tail(cs))

\* o is the element-wise maximum of the frames a and b.
IsElementwiseMax(o, a, b) ==
    /\ Len(o) = Len(a)
    /\ \A p \in 1..Len(a) :
          /\ o[p] >= a[p]
          /\ o[p] >= b[p]
          /\ o[p] \in {a[p], b[p]}

\* C8: every MaxAndSkip.step(action) invokes the inner step k times with that
\* action, k = skip when no sub-step reports done and else the index of the first
\* sub-step that reports done; it returns the sum of the rewards of those k
\* sub-steps and the done flag and info of the k-th.
C8_SkipWindow ==
    op = "MS.step" =>
        LET k == Len(calls)
        IN  /\ k \in 1..skip
            /\ \A i \in 1..k : calls[i].kind = "step" /\ <<calls[i].action>> = arg
            /\ \A i \in 1..(k - 1) : ~calls[i].done
            /\ k < skip => calls[k].done
            /\ ret.reward = SumRewards(calls)
            /\ ret.done = calls[k].done
            /\ ret.info = calls[k].info

\* A step whose second sub-step reported done stopped there, before skip sub-steps.
C8_Witness ==
    /\ op = "MS.step"
    /\ skip = 3
    /\ Len(calls) = 2
    /\ calls[2].done
    /\ ret.done
    /\ ret.reward = calls[1].reward + calls[2].reward

\* C9: for skip >= 2, a MaxAndSkip.step that runs all skip sub-steps returns the
\* element-wise maximum of the frames of its last two sub-steps, whatever the
\* buffer held before.
C9_MaxOfLastTwo ==
    (op = "MS.step" /\ skip >= 2 /\ Len(calls) = skip) =>
        IsElementwiseMax(ret.obs, calls[skip - 1].obs, calls[skip].obs)

\* A full window of three sub-steps whose last two frames differ from each other:
\* the step returned a frame that is neither of them.
C9_Witness ==
    /\ op = "MS.step"
    /\ skip = 3
    /\ Len(calls) = 3
    /\ calls[2].obs # calls[3].obs
    /\ ret.obs # calls[2].obs
    /\ ret.obs # calls[3].obs

\* C10 as stated (for skip >= 2, where offset skip-2 names a frame): after every
\* return of MaxAndSkip.step, slot 0 holds the frame at offset skip-2 and slot 1
\* the frame at offset skip-1 of that call's window, also when the episode ended
\* early within the window.
C10_Original ==
    (op = "MS.step" /\ skip >= 2) =>
        /\ Len(calls) >= skip - 1
        /\ obs_buffer[1] = calls[skip - 1].obs
        /\ Len(calls) >= skip
        /\ obs_buffer[2] = calls[skip].obs

\* C10 amended: a MaxAndSkip.step leaves in slot 1 the frame at offset skip-1 of
\* its window when it ran all skip sub-steps, and in slot 0 the frame at offset
\* skip-2 when skip >= 2 and it ran at least skip-1 sub-steps; a slot whose offset
\* the call did not reach keeps what it held before the call.
C10_Buffer ==
    [][op' = "MS.step" =>
        LET k == Len(calls')
        IN  /\ obs_buffer'[2] = IF k = skip THEN calls'[skip].obs ELSE obs_buffer[2]
            /\ obs_buffer'[1] = IF skip >= 2 /\ k >= skip - 1
                                THEN calls'[skip - 1].obs
                                ELSE obs_buffer[1]]_vars

\* A step ended at its first sub-step and both slots still hold frames of an
\* earlier call.
C10_Witness ==
    /\ op = "MS.step"
    /\ skip = 3
    /\ Len(calls) = 1
    /\ obs_buffer[1] \in Frames
    /\ obs_buffer[2] \in Frames
    /\ obs_buffer[2] # calls[1].obs

(***************************************************************************)
(* Claims about ClipRewardEnv, checked under SpecClip.                     *)
(***************************************************************************)

\* C11: ClipReward.reward(r) is the sign of r: +1 for every positive reward, -1
\* for every negative reward and 0 for zero, so every reward returned by
\* ClipReward's step is in {-1, 0, 1}.
C11_ClipSign ==
    op = "Clip.step" =>
        LET r == calls[1].reward
        IN  /\ r > 0 => ret.reward = 1
            /\ r < 0 => ret.reward = -1
            /\ r = 0 => ret.reward = 0
            /\ ret.reward \in {-1, 0, 1}

\* A step whose inner reward was below -1 returned -1.
C11_Witness ==
    op = "Clip.step" /\ calls[1].reward < -1 /\ ret.reward = -1

\* C17: when override_num_noops is set to a value <= 0, NoOpReset.reset fails
\* with an assertion failure, issues no no-op step and returns no observation.
C17_NoopAssert ==
    (op = "Noop.reset" /\ override_num_noops # <<>> /\ override_num_noops[1] <= 0) =>
        /\ ret = [kind |-> "AssertionError"]
        /\ NoopStepsIssued = 0
        /\ \A i \in 1..Len(calls) : calls[i].kind = "reset"

\* A reset with the override set to -1 failed after the inner reset alone.
C17_Witness ==
    /\ op = "Noop.reset"
    /\ override_num_noops = <<-1>>
    /\ ret.kind = "AssertionError"
    /\ Len(calls) = 1
    /\ calls[1].kind = "reset"

\* C19: whenever FireReset.reset returns, the last inner call it issued is an
\* inner reset or a step that reported not done, whatever done flags the steps
\* with actions 1 and 2 reported: the inner environment is not terminal.
C19_FireLive ==
    op = "Fire.reset" =>
        /\ ret.kind = "reset"
        /\ LET last == calls[Len(calls)]
           IN  last.kind = "reset" \/ (last.kind = "step" /\ ~last.done)
        /\ ~engTerminal

\* A reset returned after both fire steps reported done, each followed by an
\* inner reset.
C19_Witness ==
    /\ op = "Fire.reset"
    /\ Len(calls) = 5
    /\ calls[2].kind = "step" /\ calls[2].done
    /\ calls[4].kind = "step" /\ calls[4].done
    /\ calls[5].kind = "reset"
    /\ ~engTerminal

\* C18: under the caller's protocol, EpisodicLife never invokes the inner step
\* on an inner environment that has reported done since its last inner reset,
\* the no-op step issued by EpisodicLife.reset included.
C18_NoStepAfterDone ==
    [][(Len(calls') >= 1 /\ calls'[1].kind = "step") => ~engTerminal]_vars

(***************************************************************************)
(* Claims about the assembled pipeline, checked under SpecChain.           *)
(***************************************************************************)
Max(a, b) == IF a >= b THEN a ELSE b

\* C14: every step and every reset of the pipeline returns after a bounded
\* number of engine calls, whatever done flags the engine reports: a step issues
\* at most skip engine steps and no reset; a reset of NoOpReset (the pipeline
\* without EpisodicLife and FireReset) issues at most noop_max engine steps and
\* 1 + noop_max engine resets; EpisodicLife.reset issues one of these or one
\* skip window; FireReset.reset issues at most three such resets and two skip
\* windows.
C14_Bounded ==
    LET fire   == Contains(pipeline, "FireResetEnv")
        el     == Contains(pipeline, "EpisodicLifeEnv")
        inner  == IF el THEN Max(noop_max, skip) ELSE noop_max
        resets == IF fire THEN 3 ELSE 1
    IN  /\ op = "Chain.step" =>
              /\ engCalls.steps \in 1..skip
              /\ engCalls.resets = 0
        /\ op = "Chain.reset" =>
              /\ engCalls.steps <= resets * inner + (IF fire THEN 2 * skip ELSE 0)
              /\ engCalls.resets <= resets * (1 + noop_max)

\* A reset of the full pipeline in which every no-op step and the last frame of
\* both fire windows reported done issued as many engine calls as the bound allows.
C14_Witness ==
    /\ op = "Chain.reset"
    /\ Contains(pipeline, "FireResetEnv")
    /\ Contains(pipeline, "EpisodicLifeEnv")
    /\ engCalls.steps = 3 * noop_max + 2 * skip
    /\ engCalls.resets = 3 * (1 + noop_max)

\* C15: in a pipeline with clip_rewards, with or without EpisodicLife, the
\* reward a step returns is in {-1, 0, 1} and is the sign of the sum of the raw
\* rewards of the frames of its skip window; a reset returns no reward.
C15_ClippedSum ==
    /\ (op = "Chain.step" /\ Contains(pipeline, "ClipRewardEnv")) =>
          LET t == SumRewards(engCalls.frames)
          IN  /\ Len(engCalls.frames) = engCalls.steps
              /\ ret.reward \in {-1, 0, 1}
              /\ ret.reward = (IF t > 0 THEN 1 ELSE IF t < 0 THEN -1 ELSE 0)
    /\ op = "Chain.reset" => ret = [kind |-> "reset"]

\* A step whose window held the raw rewards 2 and -1 returned 1.
C15_Witness ==
    /\ op = "Chain.step"
    /\ Contains(pipeline, "ClipRewardEnv")
    /\ Contains(pipeline, "EpisodicLifeEnv")
    /\ Len(engCalls.frames) = 2
    /\ engCalls.frames[1].reward = 2
    /\ engCalls.frames[2].reward = -1
    /\ ret.reward = 1

\* Frame i of the window fr, entered with the engine's counter at before, is one
\* on which the lives counter strictly decreases to a value above 0.
LifeLostAt(fr, i, before) ==
    LET was == IF i = 1 THEN before ELSE fr[i - 1].lives
    IN  fr[i].lives < was /\ fr[i].lives > 0

\* C16 as stated: in a pipeline with EpisodicLife, every raw frame on which the
\* lives counter strictly decreases to a value above 0 makes the outer step that
\* executed it return done.
C16_Original ==
    [][(op' = "Chain.step" /\ Contains(pipeline, "EpisodicLifeEnv")) =>
          ((\E i \in 1..Len(engCalls'.frames) :
                LifeLostAt(engCalls'.frames, i, engLives)) => ret'.done)]_vars

\* C16 amended: in a pipeline with EpisodicLife, life-shaping reads the lives
\* counter once per outer step, after the skip window: the step returns done
\* exactly when the last frame executed reported done, or the lives counter after
\* that frame is above 0 and below its value when the previous outer call
\* returned.
C16_AfterWindow ==
    [][(op' = "Chain.step" /\ Contains(pipeline, "EpisodicLifeEnv")) =>
          LET fr   == engCalls'.frames
              last == fr[Len(fr)]
          IN  /\ lives = engLives
              /\ ret'.done <=> (last.done \/ (0 < last.lives /\ last.lives < engLives))]_vars

\* A step lost a life on the first frame of its window, kept the counter on the
\* second, and returned done although the engine did not.
C16_Witness ==
    /\ op = "Chain.step"
    /\ Contains(pipeline, "EpisodicLifeEnv")
    /\ Len(engCalls.frames) = 2
    /\ engCalls.frames[1].lives = 1
    /\ engCalls.frames[2].lives = 1
    /\ ~engCalls.frames[2].done
    /\ ret.done

(***************************************************************************)
(* Claims about construction, checked under SpecBuild.                     *)
(***************************************************************************)

\* C12: construction rejects precondition violations before any inner step or
\* reset: NoOpReset is constructed only if the action at index 0 is 'NOOP',
\* FireReset only if the action at index 1 is 'FIRE' and there are at least 3
\* actions, and wrap_atari fails before constructing any wrapper unless the
\* spec id contains 'NoFrameskip'.
C12_FailFast ==
    /\ op = "Noop.__init__" =>
          /\ ret.kind = "ok" <=>
                (Len(arg.env.meanings) >= 1 /\ arg.env.meanings[1] = "NOOP")
          /\ calls = <<>> /\ engCalls = NoEngCalls
    /\ op = "Fire.__init__" =>
          /\ ret.kind = "ok" <=>
                (Len(arg.env.meanings) >= 3 /\ arg.env.meanings[2] = "FIRE")
          /\ calls = <<>> /\ engCalls = NoEngCalls
    /\ (op = "wrap_atari" /\ ~Contains(arg.env.id, "NoFrameskip")) =>
          /\ ret.kind # "ok"
          /\ pipeline = <<>>
          /\ calls = <<>> /\ engCalls = NoEngCalls

\* FireReset was refused for an action set with 'FIRE' at index 1 but only two actions.
C12_Witness ==
    /\ op = "Fire.__init__"
    /\ arg.env.meanings = <<"NOOP", "FIRE">>
    /\ ret.kind = "AssertionError"

\* The pipeline wrap_atari is to assemble for a base environment and flags.
ExpectedPipeline(a) ==
    <<"NoopResetEnv", "MaxAndSkipEnv">>
    \o (IF a.episode_life THEN <<"EpisodicLifeEnv">> ELSE <<>>)
    \o (IF Contains(a.env.meanings, "FIRE") THEN <<"FireResetEnv">> ELSE <<>>)
    \o <<"image">>
    \o (IF a.clip_rewards THEN <<"ClipRewardEnv">> ELSE <<>>)
    \o (IF a.frame_stack > 1 THEN <<"Stack">> ELSE <<>>)

\* The base environment passes wrap_atari's and NoOpReset's preconditions.
WrapPreconditions ==
    /\ op = "wrap_atari"
    /\ Contains(arg.env.id, "NoFrameskip")
    /\ Len(arg.env.meanings) >= 1
    /\ arg.env.meanings[1] = "NOOP"

\* C13 as stated: for every base environment whose spec id contains
\* 'NoFrameskip' and whose action 0 is 'NOOP', wrap_atari returns a pipeline, in
\* the fixed order, that contains FireReset exactly when the action set contains
\* 'FIRE' at any index.
C13_Original ==
    WrapPreconditions => (ret.kind = "ok" /\ pipeline = ExpectedPipeline(arg))

\* C13 amended: for such a base environment wrap_atari returns a pipeline exactly
\* when the action set has no 'FIRE', or has 'FIRE' at index 1 and at least 3
\* actions; otherwise it fails while constructing FireReset.  When it returns,
\* the pipeline is in the fixed order and contains FireReset exactly when the
\* action set contains 'FIRE'.
C13_Pipeline ==
    WrapPreconditions =>
        LET m == arg.env.meanings
        IN  /\ ret.kind = "ok" <=>
                  (~Contains(m, "FIRE") \/ (Len(m) >= 3 /\ m[2] = "FIRE"))
            /\ ret.kind = "ok" => pipeline = ExpectedPipeline(arg)
            /\ ret.kind # "ok" => ~Contains(pipeline, "FireResetEnv")

\* wrap_atari returned the full pipeline for an action set with 'FIRE' at index 1.
C13_Witness ==
    /\ WrapPreconditions
    /\ arg.env.meanings = <<"NOOP", "FIRE", "UP">>
    /\ arg.episode_life
    /\ arg.clip_rewards
    /\ arg.frame_stack = 4
    /\ ret.kind = "ok"
    /\ pipeline = <<"NoopResetEnv", "MaxAndSkipEnv", "EpisodicLifeEnv", "FireResetEnv",
                    "image", "ClipRewardEnv", "Stack">>

====
